---------------------------- MODULE Spec2Model ----------------------------
(***************************************************************************)
(* A model of the simulation engine of Double-Pendulum-NN:                 *)
(*   src/models/double_pendulum.py          class DoublePendulum           *)
(*   src/models/double_pendulum_on_cart.py  class DoublePendulumOnCart     *)
(*                                                                         *)
(* One instance of one of the two classes is constructed (Init) and then   *)
(* driven by arbitrary calls of its public methods, one action per method. *)
(* A call is atomic: the program is single-threaded and every method runs  *)
(* to completion or raises.                                                *)
(*                                                                         *)
(* Numbers.  The program computes with IEEE doubles.  Here every real      *)
(* quantity (lengths, masses, forces, angles, times) is a fixed-point      *)
(* integer counting hundredths: the value v stands for v / One.  Products  *)
(* and quotients are rescaled (Mul, Div) and floored.  sin and cos are the *)
(* fixed-point rational approximation Sin, Cos below.  Consequences: the   *)
(* model has no NaN or infinity, and the quotient t / dt of a grid instant *)
(* by the step is exact, where the doubles may round it below the integer. *)
(*                                                                         *)
(* Arrays are sequences, so Python's index i is index i + 1 here.          *)
(***************************************************************************)
EXTENDS Integers, Sequences, FiniteSets, TLC

VARIABLES
    cls,      \* the class of the instance
    self,     \* the instance's fields (a record, one field per attribute)
    ret,      \* observation: the last call, how it ended and what it produced
    hist      \* observation: what has happened since construction

vars == <<cls, self, ret, hist>>

Pendulum == "DoublePendulum"
Cart     == "DoublePendulumOnCart"

\* self.y before any solve has stored a trajectory.  A stored trajectory has
\* at least one row, so the empty sequence stands for nothing else.
None == <<>>

---------------------------------------------------------------------------
(* Fixed-point arithmetic *)

One == 100

Mul(a, b) == (a * b) \div One

Div(a, b) == (a * One) \div b

Sq(a) == Mul(a, a)

\* pi and pi/2 in hundredths
Pi     == 314
HalfPi == Pi \div 2

\* np.sin: reduction to [0, 2 pi), then Bhaskara's rational approximation
\* 16 x (pi - x) / (5 pi^2 - 4 x (pi - x)) on [0, pi], odd about pi.
SinHalf(x) ==
    LET p == x * (Pi - x)
    IN  (16 * One * p) \div (5 * Pi * Pi - 4 * p)

Sin(a) ==
    LET r == a % (2 * Pi)
    IN  IF r <= Pi THEN SinHalf(r) ELSE 0 - SinHalf(r - Pi)

\* np.cos
Cos(a) == Sin(a + HalfPi)

\* np.radians on one number: x * pi / 180
Radians(d) == (d * Pi) \div (180 * One)

\* int(a / b) for a >= 0, b > 0: Python's int truncates, which floors here
IntQuot(a, b) == a \div b

\* A grid that includes the end point
ArangeLenInclusive(stop, step) == stop \div step + 1

\* np.arange(0, stop, step): ceil((stop - 0) / step) elements 0 + i * step
ArangeLen(stop, step) ==
    LET n == 0 - ((0 - stop) \div step)
    IN  IF n < 0 THEN 0 ELSE n

Arange(stop, step) == [k \in 1..ArangeLen(stop, step) |-> 0 + (k - 1) * step]

\* np.zeros(n)
Zeros(n) == [k \in 1..n |-> 0]

\* np.repeat(a, n): every element n times, in order
Repeat(a, n) == [k \in 1..(Len(a) * n) |-> a[((k - 1) \div n) + 1]]

\* y[i - 1] + dydx * dt on vectors
EulerStep(row, dydx, dt) == [k \in 1..Len(row) |-> row[k] + Mul(dydx[k], dt)]

---------------------------------------------------------------------------
(* DoublePendulum *)

\* DoublePendulum.__init__ with the given time parameters and initial
\* conditions; the physical parameters take their defaults 1.0 and 9.8.
PendulumNew(t_stop, dt, ic) ==
    [L1 |-> One, L2 |-> One, M1 |-> One, M2 |-> One, G |-> 980,
     th1 |-> ic[1], w1 |-> ic[2], th2 |-> ic[3], w2 |-> ic[4],
     t_stop |-> t_stop, dt |-> dt, t |-> Arange(t_stop, dt),
     state |-> <<Radians(ic[1]), Radians(ic[2]), Radians(ic[3]), Radians(ic[4])>>,
     y |-> None]

\* DoublePendulum._derivs(state)
PendulumDerivs(o, state) ==
    LET delta == state[3] - state[1]
        den1  == Mul(o.M1 + o.M2, o.L1) - Mul(Mul(o.M2, o.L1), Sq(Cos(delta)))
        d1    == Div(  Mul(Mul(Mul(Mul(o.M2, o.L1), Sq(state[2])), Sin(delta)), Cos(delta))
                     + Mul(Mul(Mul(o.M2, o.G), Sin(state[3])), Cos(delta))
                     + Mul(Mul(Mul(o.M2, o.L2), Sq(state[4])), Sin(delta))
                     - Mul(Mul(o.M1 + o.M2, o.G), Sin(state[1])),
                     den1)
        den2  == Mul(Div(o.L2, o.L1), den1)
        d3    == Div(  Mul(Mul(Mul(Mul(0 - o.M2, o.L2), Sq(state[4])), Sin(delta)), Cos(delta))
                     + Mul(Mul(Mul(o.M1 + o.M2, o.G), Sin(state[1])), Cos(delta))
                     - Mul(Mul(Mul(o.M1 + o.M2, o.L1), Sq(state[2])), Sin(delta))
                     - Mul(Mul(o.M1 + o.M2, o.G), Sin(state[3])),
                     den2)
    IN  <<state[2], d1, state[4], d3>>

\* The loop of DoublePendulum.solve from Python index i on: y holds rows
\* 0..i-1.  Nothing in it can raise.
RECURSIVE PendulumLoop(_, _, _)
PendulumLoop(o, y, i) ==
    IF i >= Len(o.t)
    THEN y
    ELSE PendulumLoop(o, Append(y, EulerStep(y[i], PendulumDerivs(o, y[i]), o.dt)), i + 1)

\* The local array y of DoublePendulum.solve when the call ends: raised is
\* the exception that ended it ("None": it returned), y the rows filled.
\* y[0] = self.state raises IndexError on an array of no rows.
PendulumSolveRun(o) ==
    IF Len(o.t) = 0
    THEN [raised |-> "IndexError", y |-> <<>>, hit |-> <<>>]
    ELSE [raised |-> "None", y |-> PendulumLoop(o, <<o.state>>, 1),
          hit |-> [k \in 1..Len(o.t) |-> "none"]]

---------------------------------------------------------------------------
(* DoublePendulumOnCart *)

\* DoublePendulumOnCart.__init__ with the given time parameters and initial
\* conditions; the physical parameters take their defaults.
CartNew(t_stop, dt, ic) ==
    [L1 |-> One, L2 |-> One, M1 |-> One, M2 |-> One, Mc |-> One, G |-> 980,
     x_min |-> 0 - One, x_max |-> One, f_min |-> 0 - 10 * One, f_max |-> 10 * One,
     th1 |-> ic[1], w1 |-> ic[2], th2 |-> ic[3], w2 |-> ic[4], x |-> ic[5], vx |-> ic[6],
     t_stop |-> t_stop, dt |-> dt, t |-> Arange(t_stop, dt),
     state |-> <<Radians(ic[1]), Radians(ic[2]), Radians(ic[3]), Radians(ic[4])>>
               \o <<ic[5], ic[6]>>,
     control_force |-> Zeros(IntQuot(t_stop * 1, dt)),
     y |-> None]

\* A lookup one slot late
ForceIndexNext(o, t) == IntQuot(t * 1, o.dt) + 1

\* The index of the control-force lookup in _derivs: int(t*1/self.dt),
\* as a Python index (0-based)
ForceIndex(o, t) == IntQuot(t * 1, o.dt)

\* Whether self.control_force[int(t*1/self.dt)] raises IndexError
ForceLookupFaults(o, t) == ForceIndex(o, t) >= Len(o.control_force)

\* DoublePendulumOnCart._derivs(state, t), the lookup being in range
CartDerivs(o, state, t) ==
    LET th1 == state[1]
        w1  == state[2]
        th2 == state[3]
        w2  == state[4]
        vx  == state[6]
        delta     == th2 - th1
        cos_delta == Cos(delta)
        sin_delta == Sin(delta)
        M    == o.M1 + o.M2 + o.Mc
        m1L1 == Mul(o.M1, o.L1)
        m2L2 == Mul(o.M2, o.L2)
        F    == o.control_force[ForceIndex(o, t) + 1]
        den1 == Mul(M, o.L1) - Mul(Mul(o.M1, o.L1), Sq(Cos(th1)))
                             - Mul(Mul(o.M2, o.L1), Sq(cos_delta))
        den2 == Div(Mul(o.L2, den1), o.L1)
        d1   == Div(  Mul(Mul(Mul(o.M1, o.L1), Sq(w1)), Sin(th1))
                    + Mul(Mul(Mul(Mul(o.M2, o.L2), Sq(w2)), sin_delta), cos_delta)
                    + Mul(Mul(Mul(o.M2, o.G), Sin(th2)), cos_delta)
                    + Mul(F - Mul(o.Mc, vx), Cos(th1))
                    - Mul(Mul(M, o.G), Sin(th1)),
                    den1)
        d3   == Div(  Mul(Mul(Mul(Mul(0 - o.M2, o.L2), Sq(w2)), sin_delta), cos_delta)
                    - Mul(Mul(M, o.G), Sin(th2))
                    + Mul(Mul(o.L1, d1), cos_delta),
                    den2)
        d5   == Div(  F
                    + Mul(m1L1, Mul(d1, Cos(th1)) - Mul(Sq(w1), Sin(th1)))
                    + Mul(m2L2, Mul(d3, cos_delta) - Mul(Sq(w2), sin_delta)),
                    M)
    IN  <<w1, d1, w2, d3, vx, d5>>

\* Which bound the Euler-updated row violates: the tests of solve's if/elif
Violated(o, row) ==
    IF row[5] < o.x_min THEN "min"
    ELSE IF row[5] > o.x_max THEN "max"
    ELSE "none"

\* A clamp that stops the position and keeps the velocity
ClampKeepsVelocity(o, row) ==
    IF row[5] < o.x_min THEN [row EXCEPT ![5] = o.x_min]
    ELSE IF row[5] > o.x_max THEN [row EXCEPT ![5] = o.x_max]
    ELSE row

\* The if/elif of DoublePendulumOnCart.solve on the row just computed
Clamp(o, row) ==
    IF row[5] < o.x_min THEN [row EXCEPT ![5] = o.x_min, ![6] = 0]
    ELSE IF row[5] > o.x_max THEN [row EXCEPT ![5] = o.x_max, ![6] = 0]
    ELSE row

\* A loop that stops one row early
LoopRangeShort(o) == 1..(Len(o.t) - 2)

\* The Python indices i at which the body of solve's loop runs
LoopRange(o) == 1..(Len(o.t) - 1)

\* The loop of DoublePendulumOnCart.solve from Python index i on: y holds
\* rows 0..i-1 and hit which bound each of them violated before the clamp.
RECURSIVE CartLoop(_, _, _, _)
CartLoop(o, y, hit, i) ==
    IF i \notin LoopRange(o)
    THEN [raised |-> "None", y |-> y, hit |-> hit]
    ELSE IF ForceLookupFaults(o, o.t[i])
    THEN [raised |-> "IndexError", y |-> y, hit |-> hit]
    ELSE LET row == EulerStep(y[i], CartDerivs(o, y[i], o.t[i]), o.dt)
         IN  CartLoop(o, Append(y, Clamp(o, row)), Append(hit, Violated(o, row)), i + 1)

\* The local array y of DoublePendulumOnCart.solve when the call ends
CartSolveRun(o) ==
    IF Len(o.t) = 0
    THEN [raised |-> "IndexError", y |-> <<>>, hit |-> <<>>]
    ELSE CartLoop(o, <<o.state>>, <<"none">>, 1)

---------------------------------------------------------------------------
(* Storing, exporting and playing back a trajectory, both classes *)

\* A solve that fills self.y in place: a call that raised leaves its rows
StoredInPlace(old, r) == r.y

\* self.y after solve: the assignment self.y = y is the last statement of
\* solve, so a call that raised has not reached it.
Stored(old, r) == IF r.raised = "None" THEN r.y ELSE old

\* Nothing written: the file has not been opened
NoOutput == <<>>

PendulumHeader == <<"th1 (rad)", "w1 (rad/s)", "th2 (rad)", "w2 (rad/s)">>

CartHeader ==
    <<"f (N)", "th1 (rad)", "w1 (rad/s)", "th2 (rad)", "w2 (rad/s)", "x (m)", "vx (m/s)">>

\* The row loop of DoublePendulum.save from Python index i on: out is what
\* the file holds.  self.y[i] raises IndexError past the last row.
RECURSIVE PendulumSaveLoop(_, _, _)
PendulumSaveLoop(o, out, i) ==
    IF i >= Len(o.t)
    THEN [raised |-> "None", out |-> out]
    ELSE IF i >= Len(o.y)
    THEN [raised |-> "IndexError", out |-> out]
    ELSE PendulumSaveLoop(o, Append(out, o.y[i + 1]), i + 1)

\* DoublePendulum.save
PendulumSaveRun(o) ==
    IF o.y = None
    THEN [raised |-> "ValueError", out |-> NoOutput]
    ELSE PendulumSaveLoop(o, <<PendulumHeader>>, 0)

\* The row loop of DoublePendulumOnCart.save: the row is
\* np.append([self.control_force[i]], self.y[i])
RECURSIVE CartSaveLoop(_, _, _)
CartSaveLoop(o, out, i) ==
    IF i >= Len(o.t)
    THEN [raised |-> "None", out |-> out]
    ELSE IF i >= Len(o.control_force) \/ i >= Len(o.y)
    THEN [raised |-> "IndexError", out |-> out]
    ELSE CartSaveLoop(o, Append(out, <<o.control_force[i + 1]>> \o o.y[i + 1]), i + 1)

\* A save without its guard: the header is written, then self.y[0] raises
CartSaveRunUnguarded(o) ==
    IF o.y = None
    THEN [raised |-> "TypeError", out |-> <<CartHeader>>]
    ELSE CartSaveLoop(o, <<CartHeader>>, 0)

\* DoublePendulumOnCart.save
CartSaveRun(o) ==
    IF o.y = None
    THEN [raised |-> "ValueError", out |-> NoOutput]
    ELSE CartSaveLoop(o, <<CartHeader>>, 0)

\* animate of either class: the guard, then frames = len(self.y) frames
\* handed to the animation.  The drawing itself is matplotlib's.
AnimateRun(o) ==
    IF o.y = None
    THEN [raised |-> "ValueError", frames |-> 0]
    ELSE [raised |-> "None", frames |-> Len(o.y)]

---------------------------------------------------------------------------
(* The calls the instance is driven with *)

\* Entries of a caller-supplied control-force sequence
MaxForceLen == 5

\* t_stop: one and two seconds of simulated time.  The explicit Euler steps
\* below are far too long to be stable, so longer grids leave the range of
\* the fixed-point numbers.
TStops == {One, 2 * One}

\* dt: 0.4 s does not divide a second, 0.5 s does
Dts == {40, 50}

\* (th1, w1, th2, w2) in degrees: the constructor's defaults and another
PendulumICs == {<<12000, 0, 0 - 1000, 0>>, <<9000, 3000, 4500, 0 - 6000>>}

\* (th1, w1, th2, w2, x, vx): the constructor's defaults and another
CartICs == {<<17000, 0, 0, 0, 0, 0>>, <<9000, 3000, 4500, 0 - 6000, 50, 40>>}

\* (L1, L2, M1, M2, G)
PendulumParams == {<<One, One, One, 2 * One, 980>>}

\* (L1, L2, M1, M2, Mc, G, x_min, x_max, f_min, f_max): a track of +-0.1 m
CartParams ==
    {<<One, One, One, One, One, 980, 0 - 10, 10, 0 - 10 * One, 10 * One>>}

\* Caller-supplied control forces: a constant force, every length
ForceValues == {10 * One}

CustomForces == UNION {[1..n -> ForceValues] : n \in 0..MaxForceLen}

\* (f_min, f_max)
ForceBounds == {<<0 - 10 * One, 10 * One>>}

\* Values np.random.uniform(f_min, f_max) can return: two points of the interval
Uniform(f_min, f_max) == {f_min, f_min + ((f_max - f_min) * 3) \div 4}

Returned(op, raised) ==
    [op |-> op, raised |-> raised, out |-> NoOutput, frames |-> 0,
     drawn |-> <<>>, hit |-> <<>>]

Init ==
    /\ cls \in {Pendulum, Cart}
    /\ \E t_stop \in TStops, dt \in Dts :
          self = IF cls = Pendulum
                 THEN PendulumNew(t_stop, dt, <<12000, 0, 0 - 1000, 0>>)
                 ELSE CartNew(t_stop, dt, <<17000, 0, 0, 0, 0, 0>>)
    /\ ret = Returned("__init__", "None")
    /\ hist = [solved |-> FALSE, custom |-> FALSE]

Pendulum_set_parameters ==
    /\ cls = Pendulum
    /\ \E a \in PendulumParams :
          self' = [self EXCEPT !.L1 = a[1], !.L2 = a[2], !.M1 = a[3], !.M2 = a[4], !.G = a[5]]
    /\ ret' = Returned("set_parameters", "None")
    /\ UNCHANGED <<cls, hist>>

Cart_set_parameters ==
    /\ cls = Cart
    /\ \E a \in CartParams :
          self' = [self EXCEPT !.L1 = a[1], !.L2 = a[2], !.M1 = a[3], !.M2 = a[4],
                               !.Mc = a[5], !.G = a[6], !.x_min = a[7], !.x_max = a[8],
                               !.f_min = a[9], !.f_max = a[10]]
    /\ ret' = Returned("set_parameters", "None")
    /\ UNCHANGED <<cls, hist>>

\* set_time_parameters, the same code in both classes
set_time_parameters ==
    /\ \E t_stop \in TStops, dt \in Dts :
          self' = [self EXCEPT !.t_stop = t_stop, !.dt = dt, !.t = Arange(t_stop, dt)]
    /\ ret' = Returned("set_time_parameters", "None")
    /\ UNCHANGED <<cls, hist>>

Pendulum_set_initial_conditions ==
    /\ cls = Pendulum
    /\ \E a \in PendulumICs :
          self' = [self EXCEPT !.th1 = a[1], !.w1 = a[2], !.th2 = a[3], !.w2 = a[4],
                               !.state = <<Radians(a[1]), Radians(a[2]),
                                           Radians(a[3]), Radians(a[4])>>]
    /\ ret' = Returned("set_initial_conditions", "None")
    /\ UNCHANGED <<cls, hist>>

Cart_set_initial_conditions ==
    /\ cls = Cart
    /\ \E a \in CartICs :
          self' = [self EXCEPT !.th1 = a[1], !.w1 = a[2], !.th2 = a[3], !.w2 = a[4],
                               !.x = a[5], !.vx = a[6],
                               !.state = <<Radians(a[1]), Radians(a[2]),
                                           Radians(a[3]), Radians(a[4])>>
                                         \o <<a[5], a[6]>>]
    /\ ret' = Returned("set_initial_conditions", "None")
    /\ UNCHANGED <<cls, hist>>

set_control_force ==
    /\ cls = Cart
    /\ \E f \in CustomForces : self' = [self EXCEPT !.control_force = f]
    /\ ret' = Returned("set_control_force", "None")
    /\ hist' = [hist EXCEPT !.custom = TRUE]
    /\ UNCHANGED cls

\* The sequence set_random_control_force builds from the values drawn
Staircase(o, drawn) == Repeat(drawn, IntQuot(One, o.dt))

set_random_control_force ==
    /\ cls = Cart
    /\ \E b \in ForceBounds :
          \E drawn \in [1..IntQuot(self.t_stop, One) -> Uniform(b[1], b[2])] :
             /\ self' = [self EXCEPT !.f_min = b[1], !.f_max = b[2],
                                     !.control_force = Staircase(self, drawn)]
             /\ ret' = [Returned("set_random_control_force", "None") EXCEPT !.drawn = drawn]
    /\ UNCHANGED <<cls, hist>>

solve ==
    LET r == IF cls = Pendulum THEN PendulumSolveRun(self) ELSE CartSolveRun(self)
    IN  /\ self' = [self EXCEPT !.y = Stored(self.y, r)]
        /\ ret' = [Returned("solve", r.raised) EXCEPT !.hit = r.hit]
        /\ hist' = [hist EXCEPT !.solved = @ \/ r.raised = "None"]
        /\ UNCHANGED cls

animate ==
    LET r == AnimateRun(self)
    IN  /\ ret' = [Returned("animate", r.raised) EXCEPT !.frames = r.frames]
        /\ UNCHANGED <<cls, self, hist>>

save ==
    LET r == IF cls = Pendulum THEN PendulumSaveRun(self) ELSE CartSaveRun(self)
    IN  /\ ret' = [Returned("save", r.raised) EXCEPT !.out = r.out]
        /\ UNCHANGED <<cls, self, hist>>

Next ==
    \/ Pendulum_set_parameters
    \/ Cart_set_parameters
    \/ set_time_parameters
    \/ Pendulum_set_initial_conditions
    \/ Cart_set_initial_conditions
    \/ set_control_force
    \/ set_random_control_force
    \/ solve
    \/ animate
    \/ save

Spec == Init /\ [][Next]_vars

---------------------------------------------------------------------------
(* Properties *)

IsCart == cls = Cart

\* The last call was a solve that returned
Solved == ret.op = "solve" /\ ret.raised = "None"

\* The initial state vector the fields th1 .. vx stand for
ConvertedIC ==
    IF IsCart
    THEN <<Radians(self.th1), Radians(self.w1), Radians(self.th2), Radians(self.w2),
           self.x, self.vx>>
    ELSE <<Radians(self.th1), Radians(self.w1), Radians(self.th2), Radians(self.w2)>>

\* C1: after a solve that completes, on either class and after any setter
\* calls, the stored trajectory has one row per instant of the time grid and
\* its row 0 is the initial state: the angles and angular velocities
\* converted to radians and, on the cart, x and vx as given.
C1_RowsMatchGrid ==
    Solved => /\ Len(self.y) = Len(self.t)
              /\ self.y[1] = ConvertedIC

\* C1 witness: a cart solve has completed after set_initial_conditions gave
\* a non-zero x and vx and set_time_parameters gave a five-instant grid.
C1_Witness ==
    /\ IsCart /\ Solved
    /\ self.x # 0 /\ self.vx # 0 /\ self.th1 # Radians(self.th1)
    /\ Len(self.t) = 5 /\ Len(self.y) = 5

\* The trajectory was computed from an initial position on the track
OnTrack == self.x_min < self.x_max /\ self.x_min <= self.state[5] /\ self.state[5] <= self.x_max

ConstantForce ==
    /\ Len(self.control_force) > 0
    /\ self.control_force[1] > 0
    /\ \A k \in 1..Len(self.control_force) : self.control_force[k] = self.control_force[1]

\* C3: in a trajectory the cart's solve produced under a constant control
\* force that drives x past x_max, vx is 0 in the first row stopped at x_max
\* and in every later row.
C3_VxZeroAfterClamp ==
    (IsCart /\ Solved /\ OnTrack /\ ConstantForce) =>
        \A k \in 1..Len(self.y) :
            ret.hit[k] = "max" => \A j \in k..Len(self.y) : self.y[j][6] = 0

\* C4: animate or save before any solve has completed raises, produces no
\* output and changes no field of the instance.
C4_GuardBeforeSolve ==
    [][ (ret'.op \in {"animate", "save"} /\ ~hist.solved) =>
            /\ ret'.raised = "ValueError"
            /\ ret'.out = NoOutput /\ ret'.frames = 0
            /\ self' = self ]_vars

\* C4 witness: save has raised on a cart on which set_control_force and
\* set_initial_conditions were called and no solve has completed.
C4_Witness ==
    /\ IsCart /\ ret.op = "save" /\ ret.raised = "ValueError"
    /\ ~hist.solved /\ hist.custom
    /\ self.y = None /\ self.x # 0

\* C5: on the cart, as long as set_control_force has not been called, the
\* control-force sequence has one entry per instant of the time grid.
C5_ForceMatchesGrid ==
    (IsCart /\ ~hist.custom) => Len(self.control_force) = Len(self.t)

\* The lookups solve makes: one for each of the instants t[0] .. t[N-2]
SomeLookupOutOfRange ==
    \E k \in 1..(Len(self.t) - 1) : ForceIndex(self, self.t[k]) >= Len(self.control_force)

\* C6 as stated: a cart solve with a control-force sequence shorter than
\* the time grid raises IndexError.
C6_ShortForceFaults ==
    (IsCart /\ ret.op = "solve" /\ Len(self.control_force) < Len(self.t)) =>
        ret.raised = "IndexError"

\* C6 amended: a cart solve raises IndexError exactly when the index
\* int(t/dt) of one of the instants t[0] .. t[N-2] it evaluates lies outside
\* the control-force sequence; the last instant is never looked up, so a
\* sequence of N-1 entries, one short of the grid, lets solve complete.
C6_FaultsIffLookupOutOfRange ==
    (IsCart /\ ret.op = "solve") =>
        /\ ret.raised = "IndexError" <=> SomeLookupOutOfRange
        /\ ret.raised \in {"None", "IndexError"}
        /\ Len(self.control_force) >= Len(self.t) - 1 => ret.raised = "None"

\* C6 witness: a solve has raised on a non-empty sequence too short for
\* the lookups.
C6_Witness ==
    /\ IsCart /\ ret.op = "solve" /\ ret.raised = "IndexError"
    /\ Len(self.control_force) > 0
    /\ Len(self.control_force) < Len(self.t) - 1

\* C7: a solve that raises leaves the stored trajectory as it was.
C7_FaultKeepsTrajectory ==
    [][ (ret'.op = "solve" /\ ret'.raised # "None") => self'.y = self.y ]_vars

\* C7 witness: a solve has raised with the trajectory of an earlier solve,
\* of another length than the present grid, still stored.
C7_Witness ==
    /\ ret.op = "solve" /\ ret.raised = "IndexError"
    /\ hist.solved /\ self.y # None
    /\ Len(self.y) # Len(self.t)

\* C8 as stated: the time grid has floor(t_stop/dt) instants.
C8_GridLenIsFloor == Len(self.t) = self.t_stop \div self.dt

\* C8 amended: the time grid is the instants 0, dt, 2dt, ... strictly below
\* t_stop, all of them, which makes ceil(t_stop/dt) instants: one more than
\* floor(t_stop/dt) when dt does not divide t_stop.
C8_GridIsBelowStop ==
    /\ \A k \in 1..Len(self.t) : self.t[k] = (k - 1) * self.dt /\ self.t[k] < self.t_stop
    /\ Len(self.t) * self.dt >= self.t_stop
    /\ Len(self.t) = (self.t_stop + self.dt - 1) \div self.dt

\* C8 witness: set_time_parameters has built a grid for a dt that does not
\* divide t_stop.
C8_Witness ==
    /\ ret.op = "set_time_parameters"
    /\ self.t_stop % self.dt # 0
    /\ Len(self.t) = 3 /\ self.t_stop \div self.dt = 2

\* round(1/dt): Python rounds to the nearest integer, a half to the even one
RoundInv(dt) ==
    LET q == One \div dt
        r == One % dt
    IN  IF 2 * r < dt THEN q
        ELSE IF 2 * r > dt THEN q + 1
        ELSE IF q % 2 = 0 THEN q ELSE q + 1

\* C9: after set_random_control_force the sequence is one drawn value per
\* whole second of t_stop, each within [f_min, f_max] and repeated
\* round(1/dt) times, so that every sample i holds the value drawn for the
\* second in which its instant i dt falls.
C9_StaircaseBySecond ==
    ret.op = "set_random_control_force" =>
        /\ Len(ret.drawn) = self.t_stop \div One
        /\ \A k \in 1..Len(ret.drawn) : self.f_min <= ret.drawn[k] /\ ret.drawn[k] <= self.f_max
        /\ self.control_force = Repeat(ret.drawn, RoundInv(self.dt))
        /\ \A k \in 1..Len(self.t) :
              /\ k <= Len(self.control_force)
              /\ self.control_force[k] = ret.drawn[(self.t[k] \div One) + 1]

\* The rows the export of the stored trajectory consists of
ExportOf(o) ==
    IF IsCart
    THEN <<CartHeader>> \o [k \in 1..Len(o.y) |-> <<o.control_force[k]>> \o o.y[k]]
    ELSE <<PendulumHeader>> \o o.y

\* C10: once a solve has completed, every save returns and writes the
\* header and one row per row of the stored trajectory, in order, the cart's
\* rows led by the control-force entry of the same index.
C10_SaveExportsTrajectory ==
    (hist.solved /\ ret.op = "save") =>
        /\ ret.raised = "None"
        /\ IsCart => Len(self.control_force) >= Len(self.y)
        /\ ret.out = ExportOf(self)

===========================================================================
